---- MODULE Spec2Model ----
(***************************************************************************)
(* Geofence monitoring and transition detection of the location-reminder   *)
(* application: the GeofenceManager singleton (services/GeofenceManager),  *)
(* its two background tasks, the AsyncStorage key 'activeGeofences' and    *)
(* the notifications it requests from NotificationService.                 *)
(* The operations of AppContext that call the manager work on the          *)
(* reminders StorageService keeps.  The native geofencing path             *)
(* (utils/GeofenceSetupUtil with BackgroundGeolocation) is modelled next   *)
(* to it, with its own listeners and notification requests.                *)
(*                                                                         *)
(* Geometry: positions lie on one meridian, GridStep metres apart, so the  *)
(* great-circle distance of two positions is GridStep * |p - q|.           *)
(* JavaScript values: undefined / true / false are the strings             *)
(* "undefined", "true", "false"; a null timestamp is 0.                    *)
(* Not modelled: the lastChecked / createdAt timestamps and the reminder   *)
(* texts copied into a record (no operation reads them back).              *)
(***************************************************************************)
EXTENDS Integers, Sequences, FiniteSets, TLC

\* ---------------------------------------------------------------- bounds
NumReminders == 2
MaxPos == 5
MaxClock == 3
MaxStops == 1
MaxFailures == 1
MaxInitCalls == 2
MaxNativeEvents == 3
MaxStarts == 2
MaxLeaked == 1

\* ------------------------------------------------------ program constants
\* `reminder.locationData.radius || 100`
DefaultRadius == 100

\* The grid is laid so that a neighbouring position lies exactly on the
\* boundary of a region of the default radius.
GridStep == DefaultRadius

\* GEOFENCE_CONFIG.minRadius / maxRadius (their defaults).
MinRadius == 100
MaxRadius == 1000

ReminderIds == 1..NumReminders
Positions == 0..MaxPos

\* reminder.locationData of reminder r: centre (a position) and radius in
\* metres; odd reminders carry no radius (0, falsy), even ones carry 100.
ReminderCenter(r) == 2 * r - 1
ReminderRadius(r) == IF r % 2 = 1 THEN 0 ELSE 100

\* The radii a reminder handed to AppContext may carry: none (0), the smallest
\* the radius selector offers, the default and one beyond the selector's range
\* (imported data is not validated).
RadiusInputs == {0, 50, 100, 2000}

VARIABLES
  activeGeofences,      \* this.activeGeofences: Map in insertion order, a sequence of records
  isMonitoring,         \* this.isMonitoring
  locationSubscription, \* this.locationSubscription: TRUE = a watch handle, FALSE = null
  bgLocationUpdates,    \* OS: startLocationUpdatesAsync(LOCATION_TASK_NAME) is in force
  fetchTaskRegistered,  \* OS: BackgroundFetch task GEOFENCE_CHECK_TASK is registered
  storage,              \* AsyncStorage item 'activeGeofences': [present, items]
  pendingTransitions,   \* handleGeofenceTransition calls suspended at their awaits (FIFO)
  stopsPending,         \* stopMonitoring calls suspended at isTaskRegisteredAsync
  notifLog,             \* per reminder: showGeofenceNotification requests, in order
  clock,                \* timestamp the next location reading will carry
  failures,             \* I/O calls that have been rejected so far (fault budget)
  hist,                 \* observer: per reminder, what happened to its current in-memory record
  taskRun,              \* observer: how the latest run of a background task ended
  reminders,            \* StorageService item '@LocationReminder:reminders', per reminder id
  native,               \* GeofenceSetupUtil and its BackgroundGeolocation listeners
  returned,             \* the array the latest getActiveGeofences call handed out
  starts                \* startMonitoring calls suspended at watchPositionAsync; leaked watches

vars == <<activeGeofences, isMonitoring, locationSubscription, bgLocationUpdates,
          fetchTaskRegistered, storage, pendingTransitions, stopsPending, notifLog,
          clock, failures, hist, taskRun, reminders, native, returned, starts>>

\* ----------------------------------------------------------- sequences
Abs(x) == IF x < 0 THEN -x ELSE x

IndexOf(geos, rid) ==
  IF \E i \in 1..Len(geos) : geos[i].reminderId = rid
  THEN CHOOSE i \in 1..Len(geos) : geos[i].reminderId = rid
  ELSE 0

Has(geos, rid) == IndexOf(geos, rid) # 0

RemoveAt(s, i) == [j \in 1..(Len(s) - 1) |-> IF j < i THEN s[j] ELSE s[j + 1]]

CountFor(s, rid) == Cardinality({i \in 1..Len(s) : s[i].reminderId = rid})

\* --------------------------------------------------------------- geometry
\* calculateDistance: metres between two positions.
calculateDistance(p, q) == GridStep * Abs(p - q)

IsInsideGeofence_Strict(distance, radius) == distance < radius

\* `distance <= geofence.radius`
IsInsideGeofence(distance, radius) == distance <= radius

\* `geofence.wasInside || false`
Truthy(w) == w = "true"

BoolStr(b) == IF b THEN "true" ELSE "false"

\* ------------------------------------------------------------ persistence
\* JSON.stringify drops a property whose value is undefined; JSON.parse gives
\* back a record without it, which reads as undefined again.
ToJSON(g) ==
  [reminderId |-> g.reminderId, center |-> g.center, radius |-> g.radius,
   hasWasInside |-> g.wasInside # "undefined",
   wasInside |-> IF g.wasInside = "undefined" THEN "false" ELSE g.wasInside,
   triggeredCount |-> g.triggeredCount, lastTriggered |-> g.lastTriggered,
   lastTransitionType |-> g.lastTransitionType]

FromJSON_DropsWasInside(j) ==
  [reminderId |-> j.reminderId, center |-> j.center, radius |-> j.radius,
   wasInside |-> "undefined",
   triggeredCount |-> j.triggeredCount, lastTriggered |-> j.lastTriggered,
   lastTransitionType |-> j.lastTransitionType]

FromJSON(j) ==
  [reminderId |-> j.reminderId, center |-> j.center, radius |-> j.radius,
   wasInside |-> IF j.hasWasInside THEN j.wasInside ELSE "undefined",
   triggeredCount |-> j.triggeredCount, lastTriggered |-> j.lastTriggered,
   lastTransitionType |-> j.lastTransitionType]

NoItem == [present |-> FALSE, items |-> << >>]

\* saveGeofencesToStorage: serialises the whole registry as it is at the call;
\* a rejected setItem is caught and logged, the item keeps its old value.
saveGeofencesToStorage(geos, store, ok) ==
  IF ok THEN [present |-> TRUE, items |-> [i \in 1..Len(geos) |-> ToJSON(geos[i])]]
  ELSE store

\* The records loadGeofencesFromStorage / the background tasks build from the item.
ParseStored(store) == [i \in 1..Len(store.items) |-> FromJSON(store.items[i])]

\* loadGeofencesFromStorage: replaces the registry only if the item exists.
loadGeofencesFromStorage(geos, store) ==
  IF store.present THEN ParseStored(store) ELSE geos

\* ------------------------------------------------------------- observer
NoHist == [origin |-> "none", seed |-> "undefined", carry |-> FALSE, trail |-> << >>]

\* task: "none", "fetch" (GEOFENCE_CHECK_TASK) or "location" (LOCATION_TASK_NAME);
\* outcome: "noReading", "noItem", "empty" (an item with no geofence), "threw",
\* "checked"; inside: the persisted geofences whose region held the reading of
\* that run; fired: the transitions background runs have handed to
\* handleGeofenceTransition since the last foreground reading.
NoRun == [task |-> "none", outcome |-> "none", inside |-> {}, fired |-> {}]

\* GeofenceSetupUtil as loaded: isInitialized false, no initialize call running,
\* no onGeofence listener registered, no event delivered, nothing requested.
NativeInit == [isInitialized |-> FALSE, initializing |-> 0, handlers |-> 0, events |-> 0,
               requests |-> << >>, propagated |-> FALSE]

\* No array handed out yet.  atCall: the records as they were when the call
\* returned; now: the same array read by its holder at present; alias: the
\* reminders whose record in the array is the very object the registry holds.
NoSnapshot == [taken |-> FALSE, atCall |-> << >>, now |-> << >>, alias |-> {}]

\* No startMonitoring call suspended, no watch without a handle.
NoStarts == [pending |-> 0, leaked |-> 0]

\* A reminder id nothing is stored for.
NoReminder == [status |-> "none", radius |-> 0]

PendingFor(rid) == CountFor(pendingTransitions, rid)

RequestsFor(rid) == Len(notifLog[rid]) + PendingFor(rid)

\* --------------------------------------------------------------- initial
Init ==
  /\ activeGeofences = << >>
  /\ isMonitoring = FALSE
  /\ locationSubscription = FALSE
  /\ bgLocationUpdates = FALSE
  /\ fetchTaskRegistered = FALSE
  /\ storage = NoItem
  /\ pendingTransitions = << >>
  /\ stopsPending = 0
  /\ notifLog = [r \in ReminderIds |-> << >>]
  /\ clock = 1
  /\ failures = 0
  /\ hist = [r \in ReminderIds |-> NoHist]
  /\ taskRun = NoRun
  /\ reminders = [r \in ReminderIds |-> NoReminder]
  /\ native = NativeInit
  /\ returned = NoSnapshot
  /\ starts = NoStarts

\* ------------------------------------------------------ getActiveGeofences
\* getActiveGeofences: Array.from(this.activeGeofences.values()), a new array
\* whose elements are the registry's own record objects.
getActiveGeofences(geos) ==
  [taken |-> TRUE, atCall |-> geos, now |-> geos,
   alias |-> {geos[i].reminderId : i \in 1..Len(geos)}]

\* The registry replaced or dropped the records of ids (Map.set, Map.delete,
\* Map.clear): the array keeps the old objects, which nothing updates any more.
Detach(ret, ids) == [ret EXCEPT !.alias = @ \ ids]

\* The array after the registry's records were updated in place to geos.
SeenThrough(ret, geos) ==
  [ret EXCEPT !.now = [i \in 1..Len(ret.now) |->
                         IF ret.now[i].reminderId \in ret.alias
                         THEN geos[IndexOf(geos, ret.now[i].reminderId)]
                         ELSE ret.now[i]]]

\* ------------------------------------------------------------ monitoring
\* startMonitoring, run to completion: returns at once when already monitoring;
\* otherwise watchPositionAsync then startLocationUpdatesAsync, and a failure of
\* either resets isMonitoring.  provider: "ok", "watchFails", "updatesFail".
startMonitoring(mon, provider) ==
  IF mon.isMonitoring THEN mon
  ELSE IF provider = "watchFails"
       THEN [mon EXCEPT !.isMonitoring = FALSE]
  ELSE IF provider = "updatesFail"
       THEN [mon EXCEPT !.isMonitoring = FALSE, !.locationSubscription = TRUE]
  ELSE [isMonitoring |-> TRUE, locationSubscription |-> TRUE, bgLocationUpdates |-> TRUE]

\* The watches startMonitoring leaves without a handle: watchPositionAsync
\* resolved while this.locationSubscription still held an earlier watch, which
\* the assignment overwrites without removing it.
LeakOnStart(mon, provider) ==
  IF ~mon.isMonitoring /\ mon.locationSubscription /\ provider # "watchFails" THEN 1 ELSE 0

\* The foreground watches that are live: the one whose handle is held and the
\* ones whose handle was overwritten.
LiveSubscriptions == (IF locationSubscription THEN 1 ELSE 0) + starts.leaked

Monitor == [isMonitoring |-> isMonitoring, locationSubscription |-> locationSubscription,
            bgLocationUpdates |-> bgLocationUpdates]

ProviderOutcomes == {"ok", "watchFails", "updatesFail"}

\* ------------------------------------------------------------ addGeofence
\* The record addGeofence builds: no wasInside property, counters reset.
NewGeofence(r) ==
  [reminderId |-> r, center |-> ReminderCenter(r),
   radius |-> IF ReminderRadius(r) = 0 THEN DefaultRadius ELSE ReminderRadius(r),
   wasInside |-> "undefined", triggeredCount |-> 0, lastTriggered |-> 0,
   lastTransitionType |-> "none"]

\* Map.set: replaces the value of an existing key in place, else appends.
MapSet(geos, g) ==
  IF Has(geos, g.reminderId)
  THEN [geos EXCEPT ![IndexOf(geos, g.reminderId)] = g]
  ELSE Append(geos, g)

Fault(ok) == IF ok THEN 0 ELSE 1

AddGeofence(r, saveOk, provider) ==
  LET geos == MapSet(activeGeofences, NewGeofence(r))
      mon == startMonitoring(Monitor, provider)
      faults == Fault(saveOk) + Fault(provider = "ok")
  IN /\ isMonitoring => provider = "ok"
     /\ failures + faults <= MaxFailures
     /\ failures' = failures + faults
     /\ activeGeofences' = geos
     /\ returned' = Detach(returned, {r})
     /\ storage' = saveGeofencesToStorage(geos, storage, saveOk)
     /\ isMonitoring' = mon.isMonitoring
     /\ locationSubscription' = mon.locationSubscription
     /\ bgLocationUpdates' = mon.bgLocationUpdates
     /\ starts.leaked + LeakOnStart(Monitor, provider) <= MaxLeaked
     /\ starts' = [starts EXCEPT !.leaked = @ + LeakOnStart(Monitor, provider)]
     /\ hist' = [hist EXCEPT ![r] = [origin |-> "added", seed |-> "undefined", carry |-> FALSE,
                                     trail |-> << >>]]
     /\ UNCHANGED <<fetchTaskRegistered, pendingTransitions, stopsPending, notifLog,
                    clock, taskRun, reminders, native>>

\* addGeofence on a manager that is not monitoring, up to the await inside
\* startMonitoring: the record is set and saved, isMonitoring is set, and the
\* call suspends at watchPositionAsync with no subscription yet.
AddGeofenceSuspends(r) ==
  LET geos == MapSet(activeGeofences, NewGeofence(r))
  IN /\ ~isMonitoring
     /\ starts.pending < MaxStarts
     /\ activeGeofences' = geos
     /\ returned' = Detach(returned, {r})
     /\ storage' = saveGeofencesToStorage(geos, storage, TRUE)
     /\ isMonitoring' = TRUE
     /\ starts' = [starts EXCEPT !.pending = @ + 1]
     /\ hist' = [hist EXCEPT ![r] = [origin |-> "added", seed |-> "undefined", carry |-> FALSE,
                                     trail |-> << >>]]
     /\ UNCHANGED <<locationSubscription, bgLocationUpdates, fetchTaskRegistered,
                    pendingTransitions, stopsPending, notifLog, clock, failures, taskRun,
                    reminders, native>>

\* A suspended startMonitoring goes on with both provider calls resolving: the
\* new watch is assigned to this.locationSubscription, whatever it held, and
\* the background updates are started; isMonitoring is not written again.
StartMonitoringResume ==
  /\ starts.pending > 0
  /\ starts.leaked + (IF locationSubscription THEN 1 ELSE 0) <= MaxLeaked
  /\ starts' = [pending |-> starts.pending - 1,
                leaked |-> starts.leaked + (IF locationSubscription THEN 1 ELSE 0)]
  /\ locationSubscription' = TRUE
  /\ bgLocationUpdates' = TRUE
  /\ UNCHANGED <<activeGeofences, isMonitoring, fetchTaskRegistered, storage,
                 pendingTransitions, stopsPending, notifLog, clock, failures, hist, taskRun,
                 reminders, native, returned>>

\* What addGeofence reports to its caller: "rejected" only when something
\* inside its try throws.  saveGeofencesToStorage, saveReminderData and
\* startMonitoring each catch their own errors, so neither a rejected setItem
\* nor a rejected provider call gets there and geofenceData is returned.
addGeofenceReports(saveOk, provider) == "resolved"

\* --------------------------------------------------------- removeGeofence
\* stopMonitoring up to its first await: nothing when not monitoring, else the
\* watch handle is removed and the call suspends at isTaskRegisteredAsync.
stopMonitoringBegin(mon, stops) ==
  IF ~mon.isMonitoring THEN [mon |-> mon, stops |-> stops]
  ELSE [mon |-> [mon EXCEPT !.locationSubscription = FALSE], stops |-> stops + 1]

RemoveLastStops_Always(geos) == TRUE

\* `if (this.activeGeofences.size === 0)` after the delete.
RemoveLastStops(geos) == Len(geos) = 0

\* removeGeofence of a registered reminder (for an unknown one it returns false
\* and changes nothing).  It does not wait for the stopMonitoring it starts.
RemoveGeofence(r, saveOk) ==
  /\ Has(activeGeofences, r)
  /\ LET geos == RemoveAt(activeGeofences, IndexOf(activeGeofences, r))
         st == IF RemoveLastStops(geos) THEN stopMonitoringBegin(Monitor, stopsPending)
               ELSE [mon |-> Monitor, stops |-> stopsPending]
     IN /\ st.stops <= MaxStops
        /\ failures + Fault(saveOk) <= MaxFailures
        /\ failures' = failures + Fault(saveOk)
        /\ activeGeofences' = geos
        /\ returned' = Detach(returned, {r})
        /\ storage' = saveGeofencesToStorage(geos, storage, saveOk)
        /\ isMonitoring' = st.mon.isMonitoring
        /\ locationSubscription' = st.mon.locationSubscription
        /\ bgLocationUpdates' = st.mon.bgLocationUpdates
        /\ stopsPending' = st.stops
        /\ hist' = [hist EXCEPT ![r] = NoHist]
        /\ UNCHANGED <<fetchTaskRegistered, pendingTransitions, notifLog, clock, taskRun,
                       reminders, native, starts>>

\* What removeGeofence returns: true for a registered reminder, whatever became
\* of the setItem (caught in saveGeofencesToStorage), false for an unknown one.
removeGeofenceReturns(registered, saveOk) == registered

\* stopMonitoring after its await: isTaskRegisteredAsync, then
\* stopLocationUpdatesAsync when registered, then isMonitoring = false; a
\* rejection of either call is caught and leaves isMonitoring as it is.
\* outcome: "ok", "queryFails", "stopFails".
stopMonitoringFinish(mon, outcome) ==
  IF outcome = "queryFails" THEN mon
  ELSE IF mon.bgLocationUpdates /\ outcome = "stopFails" THEN mon
  ELSE [mon EXCEPT !.isMonitoring = FALSE, !.bgLocationUpdates = FALSE]

StopOutcomes == {"ok", "queryFails", "stopFails"}

StopMonitoringResume(outcome) ==
  /\ stopsPending > 0
  /\ failures + Fault(outcome = "ok") <= MaxFailures
  /\ failures' = failures + Fault(outcome = "ok")
  /\ LET mon == stopMonitoringFinish(Monitor, outcome)
     IN /\ isMonitoring' = mon.isMonitoring
        /\ bgLocationUpdates' = mon.bgLocationUpdates
  /\ stopsPending' = stopsPending - 1
  /\ UNCHANGED <<activeGeofences, locationSubscription, fetchTaskRegistered, storage,
                 pendingTransitions, notifLog, clock, hist, taskRun, reminders, native, returned,
                 starts>>

\* --------------------------------------------------------- checkGeofences
TransitionOf_EnterWheneverInside(isInsideGeofence, wasInsideGeofence) ==
  IF isInsideGeofence THEN "ENTER"
  ELSE IF wasInsideGeofence THEN "EXIT"
  ELSE "none"

TransitionOf_ExitWheneverOutside(isInsideGeofence, wasInsideGeofence) ==
  IF isInsideGeofence /\ ~wasInsideGeofence THEN "ENTER"
  ELSE IF ~isInsideGeofence THEN "EXIT"
  ELSE "none"

\* The comparison of the new containment with the recorded one.
TransitionOf(isInsideGeofence, wasInsideGeofence) ==
  IF isInsideGeofence /\ ~wasInsideGeofence THEN "ENTER"
  ELSE IF ~isInsideGeofence /\ wasInsideGeofence THEN "EXIT"
  ELSE "none"

\* handleGeofenceTransition up to its first await (the part that runs inside
\* the forEach callback): the counters of the record.
handleGeofenceTransition(g, transitionType, timestamp) ==
  [g EXCEPT !.triggeredCount = @ + 1, !.lastTriggered = timestamp,
            !.lastTransitionType = transitionType]

UpdateGeofenceState_OnlyWhenQuiet(g, isInsideGeofence, fired) ==
  IF fired THEN g ELSE [g EXCEPT !.wasInside = BoolStr(isInsideGeofence)]

\* `geofence.wasInside = isInsideGeofence` after the branch.
UpdateGeofenceState(g, isInsideGeofence, fired) ==
  [g EXCEPT !.wasInside = BoolStr(isInsideGeofence)]

\* One forEach pass from entry i on.  A transition updates the counters and
\* serialises the registry at once (saveGeofencesToStorage runs to its setItem
\* before handleGeofenceTransition suspends), and only then is wasInside set.
RECURSIVE checkGeofencesFrom(_, _, _, _, _, _, _)
checkGeofencesFrom(i, geos, store, pos, timestamp, saveOk, events) ==
  IF i > Len(geos) THEN [threw |-> FALSE, geofences |-> geos, store |-> store, events |-> events]
  ELSE LET g == geos[i]
           distance == calculateDistance(pos, g.center)
           isInsideGeofence == IsInsideGeofence(distance, g.radius)
           wasInsideGeofence == Truthy(g.wasInside)
           type == TransitionOf(isInsideGeofence, wasInsideGeofence)
           fired == type # "none"
           g1 == IF fired THEN handleGeofenceTransition(g, type, timestamp) ELSE g
           geos1 == [geos EXCEPT ![i] = g1]
           store1 == IF fired THEN saveGeofencesToStorage(geos1, store, saveOk[g.reminderId])
                     ELSE store
           geos2 == [geos1 EXCEPT ![i] = UpdateGeofenceState(g1, isInsideGeofence, fired)]
           events1 == IF fired
                      THEN Append(events, [reminderId |-> g.reminderId, type |-> type,
                                           saved |-> saveOk[g.reminderId]])
                      ELSE events
       IN checkGeofencesFrom(i + 1, geos2, store1, pos, timestamp, saveOk, events1)

checkGeofences_BareThisWorks(thisIsManager, geos, store, pos, timestamp, saveOk) ==
  checkGeofencesFrom(1, geos, store, pos, timestamp, saveOk, << >>)

\* checkGeofences with `this` either the manager or the bare object
\* { activeGeofences } the background tasks pass: on the bare object
\* this.calculateDistance is not a function, so the first entry throws.
checkGeofences(thisIsManager, geos, store, pos, timestamp, saveOk) ==
  IF ~thisIsManager /\ Len(geos) > 0
  THEN [threw |-> TRUE, geofences |-> geos, store |-> store, events |-> << >>]
  ELSE checkGeofencesFrom(1, geos, store, pos, timestamp, saveOk, << >>)

EventFor(events, rid) ==
  IF \E i \in 1..Len(events) : events[i].reminderId = rid
  THEN LET e == events[CHOOSE i \in 1..Len(events) : events[i].reminderId = rid]
       IN [event |-> e.type, saved |-> e.saved]
  ELSE [event |-> "none", saved |-> FALSE]

\* What an observer standing at pos sees: is the device within the region of r?
DeviceInside(pos, g) == GridStep * Abs(pos - g.center) <= g.radius

Observe(geos, events, pos) ==
  [r \in ReminderIds |->
     IF Has(geos, r)
     THEN [hist[r] EXCEPT !.trail =
             Append(@, [inside |-> DeviceInside(pos, geos[IndexOf(geos, r)]),
                        event |-> EventFor(events, r).event,
                        saved |-> EventFor(events, r).saved])]
     ELSE hist[r]]

PendingOf(events) == [i \in 1..Len(events) |->
                        [reminderId |-> events[i].reminderId, type |-> events[i].type]]

\* handleLocationUpdate: the callback of the foreground watch.
HandleLocationUpdate(pos, saveOk) ==
  /\ LiveSubscriptions > 0
  /\ clock <= MaxClock
  /\ LET res == checkGeofences(TRUE, activeGeofences, storage, pos, clock, saveOk)
         faults == Cardinality({i \in 1..Len(res.events) : ~res.events[i].saved})
     IN /\ \A r \in ReminderIds : ~saveOk[r] => EventFor(res.events, r).event # "none"
        /\ failures + faults <= MaxFailures
        /\ failures' = failures + faults
        /\ activeGeofences' = res.geofences
        /\ returned' = SeenThrough(returned, res.geofences)
        /\ storage' = res.store
        /\ pendingTransitions' = pendingTransitions \o PendingOf(res.events)
        /\ hist' = Observe(activeGeofences, res.events, pos)
  /\ clock' = clock + 1
  /\ taskRun' = [taskRun EXCEPT !.fired = {}]
  /\ UNCHANGED <<isMonitoring, locationSubscription, bgLocationUpdates, fetchTaskRegistered,
                 stopsPending, notifLog, reminders, native, starts>>

\* loadReminderData: the entry of the 'reminders' item whose id is reminderId,
\* or null when the item is absent, unreadable or has no such entry.
NoReminderData == [id |-> 0, source |-> "none"]

loadReminderData(reminderId, found) ==
  IF found THEN [id |-> reminderId, source |-> "stored"] ELSE NoReminderData

\* `fullReminder || { id: geofence.reminderId, ... }`.
ReminderForNotification(geofenceReminderId, fullReminder) ==
  IF fullReminder.source # "none" THEN fullReminder
  ELSE [id |-> geofenceReminderId, source |-> "fallback"]

showGeofenceNotification_AlwaysArrival(reminder, transitionType, dispatchOk) ==
  [reminderId |-> reminder.id, transitionType |-> "ENTER", delivered |-> dispatchOk]

\* showGeofenceNotification: the data of the notification it schedules.
showGeofenceNotification(reminder, transitionType, dispatchOk) ==
  [reminderId |-> reminder.id, transitionType |-> transitionType, delivered |-> dispatchOk]

\* handleGeofenceTransition after its awaits (the save, then loadReminderData):
\* it calls showGeofenceNotification with the stored reminder or with the
\* fallback built from the record, both carrying geofence.reminderId; the
\* scheduleNotificationAsync inside may be rejected, which is caught there.
TransitionResume(dispatchOk) ==
  /\ Len(pendingTransitions) > 0
  /\ failures + Fault(dispatchOk) <= MaxFailures
  /\ failures' = failures + Fault(dispatchOk)
  /\ \E found \in BOOLEAN :
       LET t == Head(pendingTransitions)
           reminder == ReminderForNotification(t.reminderId, loadReminderData(t.reminderId, found))
           n == showGeofenceNotification(reminder, t.type, dispatchOk)
       IN notifLog' = [notifLog EXCEPT ![n.reminderId] =
                         Append(@, [type |-> n.transitionType, delivered |-> n.delivered])]
  /\ pendingTransitions' = Tail(pendingTransitions)
  /\ UNCHANGED <<activeGeofences, isMonitoring, locationSubscription, bgLocationUpdates,
                 fetchTaskRegistered, storage, stopsPending, clock, hist, taskRun, reminders,
                 native, returned, starts>>

\* ------------------------------------------------------ background tasks
\* What an observer sees of a background reading: the persisted geofences
\* whose region holds it.
InsideStored(pos) ==
  {r \in ReminderIds :
     /\ storage.present
     /\ \E i \in 1..Len(storage.items) :
          /\ storage.items[i].reminderId = r
          /\ GridStep * Abs(pos - storage.items[i].center) <= storage.items[i].radius}

BackgroundEvaluate_SavesWhenAbsent(task, pos) ==
  IF ~storage.present
  THEN /\ storage' = [present |-> TRUE, items |-> << >>]
       /\ UNCHANGED pendingTransitions
       /\ taskRun' = [taskRun EXCEPT !.task = task, !.outcome = "noItem", !.inside = {}]
  ELSE /\ UNCHANGED <<storage, pendingTransitions>>
       /\ taskRun' = [taskRun EXCEPT !.task = task,
                                     !.outcome = IF Len(storage.items) = 0 THEN "empty"
                                                 ELSE "threw",
                                     !.inside = InsideStored(pos)]

\* What both background tasks do with a reading: read the item, rebuild a Map
\* and call checkGeofences on the bare object { activeGeofences }; whatever is
\* thrown is caught and logged by the task.
BackgroundEvaluate(task, pos) ==
  IF ~storage.present
  THEN /\ UNCHANGED <<storage, pendingTransitions>>
       /\ taskRun' = [taskRun EXCEPT !.task = task, !.outcome = "noItem", !.inside = {}]
  ELSE LET res == checkGeofences(FALSE, ParseStored(storage), storage, pos, clock,
                                 [r \in ReminderIds |-> TRUE])
       IN IF res.threw
          THEN /\ UNCHANGED <<storage, pendingTransitions>>
               /\ taskRun' = [taskRun EXCEPT !.task = task, !.outcome = "threw",
                                             !.inside = InsideStored(pos)]
          ELSE /\ storage' = res.store
               /\ pendingTransitions' = pendingTransitions \o PendingOf(res.events)
               /\ taskRun' = [task |-> task,
                              outcome |-> IF Len(storage.items) = 0 THEN "empty" ELSE "checked",
                              inside |-> InsideStored(pos),
                              fired |-> taskRun.fired \cup
                                          {PendingOf(res.events)[i] : i \in 1..Len(res.events)}]

PerformBackgroundGeofenceCheck_ChecksWithoutReading(readingOk, pos) ==
  /\ fetchTaskRegistered
  /\ clock <= MaxClock
  /\ failures + Fault(readingOk) <= MaxFailures
  /\ failures' = failures + Fault(readingOk)
  /\ BackgroundEvaluate("fetch", pos)
  /\ clock' = clock + 1
  /\ UNCHANGED <<activeGeofences, isMonitoring, locationSubscription, bgLocationUpdates,
                 fetchTaskRegistered, stopsPending, notifLog, hist, reminders, native, returned,
                 starts>>

\* performBackgroundGeofenceCheck: the periodic fetch task; getCurrentPositionAsync
\* may reject, which ends the run in the catch.
PerformBackgroundGeofenceCheck(readingOk, pos) ==
  /\ fetchTaskRegistered
  /\ clock <= MaxClock
  /\ failures + Fault(readingOk) <= MaxFailures
  /\ failures' = failures + Fault(readingOk)
  /\ IF readingOk THEN BackgroundEvaluate("fetch", pos)
     ELSE /\ UNCHANGED <<storage, pendingTransitions>>
          /\ taskRun' = [taskRun EXCEPT !.task = "fetch", !.outcome = "noReading",
                                        !.inside = {}]
  /\ clock' = clock + 1
  /\ UNCHANGED <<activeGeofences, isMonitoring, locationSubscription, bgLocationUpdates,
                 fetchTaskRegistered, stopsPending, notifLog, hist, reminders, native, returned,
                 starts>>

\* handleBackgroundLocationUpdate: the background location task.
HandleBackgroundLocationUpdate(pos) ==
  /\ bgLocationUpdates
  /\ clock <= MaxClock
  /\ BackgroundEvaluate("location", pos)
  /\ clock' = clock + 1
  /\ UNCHANGED <<activeGeofences, isMonitoring, locationSubscription, bgLocationUpdates,
                 fetchTaskRegistered, stopsPending, notifLog, failures, hist, reminders, native,
                 returned, starts>>

\* ------------------------------------------------------------ initialize
\* registerBackgroundTasks: a rejected registration is caught and logged.
registerBackgroundTasks(registered, ok) == IF ok THEN TRUE ELSE registered

\* The wasInside the storage item holds for r ("undefined": no such property).
PersistedWasInside(store, r) ==
  LET j == store.items[IndexOf(store.items, r)]
  IN IF j.hasWasInside THEN j.wasInside ELSE "undefined"

LoadedHist(geos, carried, r) ==
  IF Has(geos, r)
  THEN [origin |-> "loaded", seed |-> PersistedWasInside(storage, r),
        carry |-> carried[r], trail |-> << >>]
  ELSE NoHist

\* At the death of the process the observer notes for each registered reminder
\* whether the device had entered its region (the ENTER handled, its write
\* done, its notification requested) and every later reading was inside it.
EnteredAndStayed(r) ==
  /\ Has(activeGeofences, r)
  /\ PendingFor(r) = 0
  /\ LET t == hist[r].trail
     IN \E i \in 1..Len(t) :
          /\ t[i].event = "ENTER" /\ t[i].saved
          /\ \A j \in (i + 1)..Len(t) : t[j].inside

\* The constructor: what a new process starts from.
Constructed == [isMonitoring |-> FALSE, locationSubscription |-> FALSE,
                bgLocationUpdates |-> bgLocationUpdates]

\* initialize, run to completion on a freshly constructed manager: permissions,
\* registerBackgroundTasks, loadGeofencesFromStorage, then startMonitoring when
\* the registry is not empty.  Without the location permission it stops before
\* any of these.  A rejected getItem is caught in loadGeofencesFromStorage.
initialize(permission, regOk, loadOk, provider) ==
  IF ~permission
  THEN [geofences |-> << >>, mon |-> Constructed, fetch |-> fetchTaskRegistered, loaded |-> FALSE]
  ELSE LET geos == IF loadOk THEN loadGeofencesFromStorage(<< >>, storage) ELSE << >>
       IN [geofences |-> geos,
           mon |-> IF Len(geos) > 0 THEN startMonitoring(Constructed, provider) ELSE Constructed,
           fetch |-> registerBackgroundTasks(fetchTaskRegistered, regOk),
           loaded |-> loadOk /\ storage.present]

\* The operating system ends the process and the application is started again:
\* suspended calls are gone, the singleton is constructed anew and the
\* application's mount effect runs initialize; the storage item and both task
\* registrations outlive the process.  (The first start is the same step.)
Restart(permission, regOk, loadOk, provider) ==
  LET res == initialize(permission, regOk, loadOk, provider)
      faults == Fault(regOk) + Fault(loadOk) + Fault(provider = "ok")
      carried == [r \in ReminderIds |-> EnteredAndStayed(r)]
  IN /\ ~permission => (regOk /\ loadOk /\ provider = "ok")
     /\ Len(res.geofences) = 0 => provider = "ok"
     /\ failures + faults <= MaxFailures
     /\ failures' = failures + faults
     /\ activeGeofences' = res.geofences
     /\ isMonitoring' = res.mon.isMonitoring
     /\ locationSubscription' = res.mon.locationSubscription
     /\ bgLocationUpdates' = res.mon.bgLocationUpdates
     /\ fetchTaskRegistered' = res.fetch
     /\ pendingTransitions' = << >>
     /\ stopsPending' = 0
     /\ hist' = [r \in ReminderIds |-> LoadedHist(res.geofences, carried, r)]
     /\ returned' = NoSnapshot
     /\ starts' = NoStarts
     /\ native' = [native EXCEPT !.isInitialized = FALSE, !.initializing = 0, !.handlers = 0]
     /\ UNCHANGED <<storage, notifLog, clock, taskRun, reminders>>

\* --------------------------------------------------------------- cleanup
\* cleanup: waits for stopMonitoring, unregisters the fetch task (a rejection
\* is caught), clears the registry and removes the storage item.
Cleanup(outcome, unregOk) ==
  LET st == stopMonitoringBegin(Monitor, 0)
      mon == IF st.stops > 0 THEN stopMonitoringFinish(st.mon, outcome) ELSE st.mon
      faults == Fault(outcome = "ok") + Fault(unregOk)
  IN /\ ~isMonitoring => outcome = "ok"
     /\ failures + faults <= MaxFailures
     /\ failures' = failures + faults
     /\ isMonitoring' = mon.isMonitoring
     /\ locationSubscription' = mon.locationSubscription
     /\ bgLocationUpdates' = mon.bgLocationUpdates
     /\ fetchTaskRegistered' = IF unregOk THEN FALSE ELSE fetchTaskRegistered
     /\ activeGeofences' = << >>
     /\ returned' = Detach(returned, ReminderIds)
     /\ storage' = NoItem
     /\ hist' = [r \in ReminderIds |-> NoHist]
     /\ UNCHANGED <<pendingTransitions, stopsPending, notifLog, clock, taskRun, reminders,
                    native, starts>>

\* ------------------------------------------------------------ AppContext
\* The operations of AppContext, each run to its end with every I/O call
\* succeeding.  They work on the reminders StorageService keeps and call the
\* manager's addGeofence / removeGeofence / cleanup.
Manager == [geofences |-> activeGeofences, store |-> storage, mon |-> Monitor,
            stops |-> stopsPending, leaked |-> starts.leaked]

\* geofenceData for a reminder whose locationData carries this radius.
GeofenceData(r, radius) ==
  [NewGeofence(r) EXCEPT !.radius = IF radius = 0 THEN DefaultRadius ELSE radius]

\* addGeofence(reminder) as a function of the manager's state.
addGeofenceOn(m, g) ==
  LET geos == MapSet(m.geofences, g)
  IN [geofences |-> geos, store |-> saveGeofencesToStorage(geos, m.store, TRUE),
      mon |-> startMonitoring(m.mon, "ok"), stops |-> m.stops,
      leaked |-> m.leaked + LeakOnStart(m.mon, "ok")]

\* removeGeofence(id) as a function of the manager's state.
removeGeofenceOn(m, r) ==
  IF ~Has(m.geofences, r) THEN m
  ELSE LET geos == RemoveAt(m.geofences, IndexOf(m.geofences, r))
           st == IF RemoveLastStops(geos) THEN stopMonitoringBegin(m.mon, m.stops)
                 ELSE [mon |-> m.mon, stops |-> m.stops]
       IN [geofences |-> geos, store |-> saveGeofencesToStorage(geos, m.store, TRUE),
           mon |-> st.mon, stops |-> st.stops, leaked |-> m.leaked]

\* The manager's state after the calls of one AppContext operation on reminder r.
ManagerBecomes(m, r) ==
  /\ m.stops <= MaxStops
  /\ activeGeofences' = m.geofences
  /\ returned' = Detach(returned, {r})
  /\ storage' = m.store
  /\ isMonitoring' = m.mon.isMonitoring
  /\ locationSubscription' = m.mon.locationSubscription
  /\ bgLocationUpdates' = m.mon.bgLocationUpdates
  /\ stopsPending' = m.stops
  /\ m.leaked <= MaxLeaked
  /\ starts' = [starts EXCEPT !.leaked = m.leaked]
  /\ hist' = [hist EXCEPT ![r] = IF Has(m.geofences, r)
                                 THEN [origin |-> "added", seed |-> "undefined",
                                       carry |-> FALSE, trail |-> << >>]
                                 ELSE NoHist]

\* addReminder: StorageService.addReminder, then addGeofence(newReminder).
AddReminder(r, radius) ==
  /\ reminders[r].status = "none"
  /\ reminders' = [reminders EXCEPT ![r] = [status |-> "active", radius |-> radius]]
  /\ ManagerBecomes(addGeofenceOn(Manager, GeofenceData(r, radius)), r)
  /\ UNCHANGED <<fetchTaskRegistered, pendingTransitions, notifLog, clock, failures, taskRun,
                 native>>

\* updateReminder: StorageService.updateReminder, then, when the updates carry
\* locationData, removeGeofence and addGeofence(updatedReminder).
UpdateReminder(r, withLocation, radius) ==
  /\ reminders[r].status # "none"
  /\ IF withLocation
     THEN /\ reminders' = [reminders EXCEPT ![r].radius = radius]
          /\ ManagerBecomes(addGeofenceOn(removeGeofenceOn(Manager, r),
                                          GeofenceData(r, radius)), r)
     ELSE UNCHANGED <<reminders, activeGeofences, storage, isMonitoring, locationSubscription,
                      bgLocationUpdates, stopsPending, hist, returned, starts>>
  /\ UNCHANGED <<fetchTaskRegistered, pendingTransitions, notifLog, clock, failures, taskRun,
                 native>>

\* deleteReminder, confirmed in its dialog: removeGeofence, then
\* StorageService.deleteReminder.
DeleteReminder(r) ==
  /\ reminders[r].status # "none"
  /\ reminders' = [reminders EXCEPT ![r] = NoReminder]
  /\ ManagerBecomes(removeGeofenceOn(Manager, r), r)
  /\ UNCHANGED <<fetchTaskRegistered, pendingTransitions, notifLog, clock, failures, taskRun,
                 native>>

\* toggleReminderStatus: StorageService.toggleReminderStatus, then addGeofence
\* for a reminder that became active, removeGeofence for one that became
\* inactive.
ToggleReminderStatus(r) ==
  /\ reminders[r].status # "none"
  /\ IF reminders[r].status = "inactive"
     THEN /\ reminders' = [reminders EXCEPT ![r].status = "active"]
          /\ ManagerBecomes(addGeofenceOn(Manager, GeofenceData(r, reminders[r].radius)), r)
     ELSE /\ reminders' = [reminders EXCEPT ![r].status = "inactive"]
          /\ ManagerBecomes(removeGeofenceOn(Manager, r), r)
  /\ UNCHANGED <<fetchTaskRegistered, pendingTransitions, notifLog, clock, failures, taskRun,
                 native>>

\* importData with data.reminders: StorageService.importData overwrites the
\* stored reminders and initializeApp reloads them; the manager is not called.
ImportData(data) ==
  /\ reminders' = data
  /\ UNCHANGED <<activeGeofences, isMonitoring, locationSubscription, bgLocationUpdates,
                 fetchTaskRegistered, storage, pendingTransitions, stopsPending, notifLog,
                 clock, failures, hist, taskRun, native, returned, starts>>

\* clearAllData, confirmed in its dialog: GeofenceManager.cleanup, then
\* StorageService.clearAllData.
ClearAllData ==
  /\ Cleanup("ok", TRUE)
  /\ reminders' = [r \in ReminderIds |-> NoReminder]

\* What importData may be handed: any reminders, active or not, of any radius.
ImportInputs ==
  [ReminderIds -> {NoReminder} \cup [status : {"active", "inactive"}, radius : RadiusInputs]]

\* A caller (a screen, a status display) asks for the registered geofences and
\* keeps the array.
GetActiveGeofences ==
  /\ Len(activeGeofences) > 0
  /\ returned' = getActiveGeofences(activeGeofences)
  /\ UNCHANGED <<activeGeofences, isMonitoring, locationSubscription, bgLocationUpdates,
                 fetchTaskRegistered, storage, pendingTransitions, stopsPending, notifLog,
                 clock, failures, hist, taskRun, reminders, native, starts>>

\* --------------------------------------------------- native geofencing
\* The events BackgroundGeolocation hands to its onGeofence listeners: an
\* action, and extras that may be missing or may lack a reminderId (0).
NativeActions == {"ENTER", "EXIT", "DWELL"}

NativeEvents ==
  [action : NativeActions, extras : {TRUE}, reminderId : {0} \cup ReminderIds]
    \cup [action : NativeActions, extras : {FALSE}, reminderId : {0}]

NoNativeRequest == [requests |-> << >>, propagated |-> FALSE]

handleGeofenceEvent_AnyAction(event, parseOk, hapticsOk, scheduleOk) ==
  IF ~event.extras \/ event.reminderId = 0 THEN NoNativeRequest
  ELSE IF ~parseOk \/ ~hapticsOk THEN NoNativeRequest
  ELSE [requests |-> <<[reminderId |-> event.reminderId, action |-> event.action,
                        delivered |-> scheduleOk]>>,
        propagated |-> FALSE]

\* handleGeofenceEvent: returns for an action other than ENTER and for extras
\* without reminderId; JSON.parse of extras.checklist and Haptics may throw
\* before scheduleNotificationAsync is reached; the catch around the whole
\* body logs every exception, a rejected scheduleNotificationAsync included.
handleGeofenceEvent(event, parseOk, hapticsOk, scheduleOk) ==
  IF event.action # "ENTER" THEN NoNativeRequest
  ELSE IF ~event.extras \/ event.reminderId = 0 THEN NoNativeRequest
  ELSE IF ~parseOk \/ ~hapticsOk THEN NoNativeRequest
  ELSE [requests |-> <<[reminderId |-> event.reminderId, action |-> event.action,
                        delivered |-> scheduleOk]>>,
        propagated |-> FALSE]

RECURSIVE Repeat(_, _)
Repeat(s, n) == IF n = 0 THEN << >> ELSE s \o Repeat(s, n - 1)

\* initialize up to its first await, called by the hook's mount effect or by
\* setupGeofence: returns at once when isInitialized, else goes on to
\* setNotificationHandler / requestPermissionsAsync / BackgroundGeolocation.ready.
NativeInitializeBegin ==
  /\ native.initializing < MaxInitCalls
  /\ native' = IF native.isInitialized THEN native
               ELSE [native EXCEPT !.initializing = @ + 1]
  /\ UNCHANGED <<activeGeofences, isMonitoring, locationSubscription, bgLocationUpdates,
                 fetchTaskRegistered, storage, pendingTransitions, stopsPending, notifLog,
                 clock, failures, hist, taskRun, reminders, returned, starts>>

\* initialize past its awaits: registers handleGeofenceEvent with onGeofence and
\* then sets isInitialized; a rejected await is rethrown before either.
NativeInitializeFinish(readyOk) ==
  /\ native.initializing > 0
  /\ native' = IF readyOk
               THEN [native EXCEPT !.initializing = @ - 1, !.handlers = @ + 1,
                                   !.isInitialized = TRUE]
               ELSE [native EXCEPT !.initializing = @ - 1]
  /\ UNCHANGED <<activeGeofences, isMonitoring, locationSubscription, bgLocationUpdates,
                 fetchTaskRegistered, storage, pendingTransitions, stopsPending, notifLog,
                 clock, failures, hist, taskRun, reminders, returned, starts>>

\* BackgroundGeolocation fires a geofence event: every registered listener runs
\* handleGeofenceEvent on it.
NativeGeofenceEvent(event, parseOk, hapticsOk, scheduleOk) ==
  /\ native.handlers > 0
  /\ native.events < MaxNativeEvents
  /\ LET res == handleGeofenceEvent(event, parseOk, hapticsOk, scheduleOk)
     IN native' = [native EXCEPT !.events = @ + 1,
                                 !.requests = @ \o Repeat(res.requests, native.handlers),
                                 !.propagated = @ \/ res.propagated]
  /\ UNCHANGED <<activeGeofences, isMonitoring, locationSubscription, bgLocationUpdates,
                 fetchTaskRegistered, storage, pendingTransitions, stopsPending, notifLog,
                 clock, failures, hist, taskRun, reminders, returned, starts>>

Next ==
  \/ \E permission, regOk, loadOk \in BOOLEAN, provider \in ProviderOutcomes :
       Restart(permission, regOk, loadOk, provider)
  \/ \E r \in ReminderIds, saveOk \in BOOLEAN, provider \in ProviderOutcomes :
       AddGeofence(r, saveOk, provider)
  \/ \E r \in ReminderIds, saveOk \in BOOLEAN : RemoveGeofence(r, saveOk)
  \/ \E outcome \in StopOutcomes : StopMonitoringResume(outcome)
  \/ \E pos \in Positions, saveOk \in [ReminderIds -> BOOLEAN] : HandleLocationUpdate(pos, saveOk)
  \/ \E dispatchOk \in BOOLEAN : TransitionResume(dispatchOk)
  \/ \E readingOk \in BOOLEAN, pos \in Positions : PerformBackgroundGeofenceCheck(readingOk, pos)
  \/ \E pos \in Positions : HandleBackgroundLocationUpdate(pos)
  \/ \E outcome \in StopOutcomes, unregOk \in BOOLEAN : Cleanup(outcome, unregOk)
  \/ \E r \in ReminderIds, radius \in RadiusInputs : AddReminder(r, radius)
  \/ \E r \in ReminderIds, withLocation \in BOOLEAN, radius \in RadiusInputs :
       UpdateReminder(r, withLocation, radius)
  \/ \E r \in ReminderIds : DeleteReminder(r)
  \/ \E r \in ReminderIds : ToggleReminderStatus(r)
  \/ \E data \in ImportInputs : ImportData(data)
  \/ ClearAllData
  \/ \E r \in ReminderIds : AddGeofenceSuspends(r)
  \/ StartMonitoringResume
  \/ GetActiveGeofences
  \/ NativeInitializeBegin
  \/ \E readyOk \in BOOLEAN : NativeInitializeFinish(readyOk)
  \/ \E event \in NativeEvents, parseOk, hapticsOk, scheduleOk \in BOOLEAN :
       NativeGeofenceEvent(event, parseOk, hapticsOk, scheduleOk)

\* The whole program.
Spec == Init /\ [][Next]_vars

\* One process lifetime in the foreground: registry operations, readings of the
\* foreground watch and the suspended calls they leave, with rejected I/O.
NextForeground ==
  \/ \E r \in ReminderIds, saveOk \in BOOLEAN, provider \in ProviderOutcomes :
       AddGeofence(r, saveOk, provider)
  \/ \E r \in ReminderIds, saveOk \in BOOLEAN : RemoveGeofence(r, saveOk)
  \/ \E outcome \in StopOutcomes : StopMonitoringResume(outcome)
  \/ \E pos \in Positions, saveOk \in [ReminderIds -> BOOLEAN] : HandleLocationUpdate(pos, saveOk)
  \/ \E dispatchOk \in BOOLEAN : TransitionResume(dispatchOk)

SpecForeground == Init /\ [][NextForeground]_vars

\* Process restarts and the background tasks, every I/O call succeeding.
NextRestart ==
  \/ \E permission \in BOOLEAN : Restart(permission, TRUE, TRUE, "ok")
  \/ \E r \in ReminderIds : AddGeofence(r, TRUE, "ok")
  \/ \E r \in ReminderIds : RemoveGeofence(r, TRUE)
  \/ StopMonitoringResume("ok")
  \/ \E pos \in Positions : HandleLocationUpdate(pos, [r \in ReminderIds |-> TRUE])
  \/ TransitionResume(TRUE)
  \/ \E pos \in Positions : PerformBackgroundGeofenceCheck(TRUE, pos)
  \/ \E pos \in Positions : HandleBackgroundLocationUpdate(pos)

SpecRestart == Init /\ [][NextRestart]_vars

\* The monitoring life cycle: registry operations, restarts and cleanup with
\* rejected I/O, no readings.
NextLifecycle ==
  \/ \E permission, regOk, loadOk \in BOOLEAN, provider \in ProviderOutcomes :
       Restart(permission, regOk, loadOk, provider)
  \/ \E r \in ReminderIds, saveOk \in BOOLEAN, provider \in ProviderOutcomes :
       AddGeofence(r, saveOk, provider)
  \/ \E r \in ReminderIds, saveOk \in BOOLEAN : RemoveGeofence(r, saveOk)
  \/ \E outcome \in StopOutcomes : StopMonitoringResume(outcome)
  \/ \E outcome \in StopOutcomes, unregOk \in BOOLEAN : Cleanup(outcome, unregOk)

SpecLifecycle == Init /\ [][NextLifecycle]_vars

\* The same operations run one after another: the stopMonitoring that a
\* removeGeofence leaves running finishes before the next operation starts.
NextSequential ==
  \/ stopsPending > 0 /\ \E outcome \in StopOutcomes : StopMonitoringResume(outcome)
  \/ stopsPending = 0 /\ \E permission, regOk, loadOk \in BOOLEAN, provider \in ProviderOutcomes :
                            Restart(permission, regOk, loadOk, provider)
  \/ stopsPending = 0 /\ \E r \in ReminderIds, saveOk \in BOOLEAN, provider \in ProviderOutcomes :
                            AddGeofence(r, saveOk, provider)
  \/ stopsPending = 0 /\ \E r \in ReminderIds, saveOk \in BOOLEAN : RemoveGeofence(r, saveOk)
  \/ stopsPending = 0 /\ \E outcome \in StopOutcomes, unregOk \in BOOLEAN : Cleanup(outcome, unregOk)

SpecSequential == Init /\ [][NextSequential]_vars

\* The background tasks next to the monitoring life cycle, with rejected I/O and
\* no foreground readings.
NextTasks ==
  \/ \E permission, regOk, loadOk \in BOOLEAN, provider \in ProviderOutcomes :
       Restart(permission, regOk, loadOk, provider)
  \/ \E r \in ReminderIds, saveOk \in BOOLEAN, provider \in ProviderOutcomes :
       AddGeofence(r, saveOk, provider)
  \/ \E r \in ReminderIds, saveOk \in BOOLEAN : RemoveGeofence(r, saveOk)
  \/ \E outcome \in StopOutcomes : StopMonitoringResume(outcome)
  \/ \E outcome \in StopOutcomes, unregOk \in BOOLEAN : Cleanup(outcome, unregOk)
  \/ \E readingOk \in BOOLEAN, pos \in Positions : PerformBackgroundGeofenceCheck(readingOk, pos)
  \/ \E pos \in Positions : HandleBackgroundLocationUpdate(pos)

SpecTasks == Init /\ [][NextTasks]_vars

\* One process lifetime with the foreground watch and the background location
\* task both delivering readings, every I/O call succeeding.
NextBothPaths ==
  \/ \E r \in ReminderIds : AddGeofence(r, TRUE, "ok")
  \/ \E r \in ReminderIds : RemoveGeofence(r, TRUE)
  \/ StopMonitoringResume("ok")
  \/ \E pos \in Positions : HandleLocationUpdate(pos, [r \in ReminderIds |-> TRUE])
  \/ TransitionResume(TRUE)
  \/ \E pos \in Positions : HandleBackgroundLocationUpdate(pos)

SpecBothPaths == Init /\ [][NextBothPaths]_vars

\* The operations of AppContext and the stopMonitoring calls they leave running.
NextAppContext ==
  \/ \E r \in ReminderIds, radius \in RadiusInputs : AddReminder(r, radius)
  \/ \E r \in ReminderIds, withLocation \in BOOLEAN, radius \in RadiusInputs :
       UpdateReminder(r, withLocation, radius)
  \/ \E r \in ReminderIds : DeleteReminder(r)
  \/ \E r \in ReminderIds : ToggleReminderStatus(r)
  \/ \E data \in ImportInputs : ImportData(data)
  \/ ClearAllData
  \/ StopMonitoringResume("ok")

SpecAppContext == Init /\ [][NextAppContext]_vars
\* The native path: initialize calls, overlapping or not, and geofence events.
NextNative ==
  \/ NativeInitializeBegin
  \/ \E readyOk \in BOOLEAN : NativeInitializeFinish(readyOk)
  \/ \E event \in NativeEvents, parseOk, hapticsOk, scheduleOk \in BOOLEAN :
       NativeGeofenceEvent(event, parseOk, hapticsOk, scheduleOk)

SpecNative == Init /\ [][NextNative]_vars
\* Foreground readings with a caller holding the array of getActiveGeofences.
NextSnapshot ==
  \/ \E r \in ReminderIds : AddGeofence(r, TRUE, "ok")
  \/ GetActiveGeofences
  \/ \E pos \in Positions : HandleLocationUpdate(pos, [r \in ReminderIds |-> TRUE])
  \/ TransitionResume(TRUE)

SpecSnapshot == Init /\ [][NextSnapshot]_vars
\* addGeofence and removeGeofence calls whose startMonitoring and
\* stopMonitoring overlap, every I/O call succeeding.
NextInterleaved ==
  \/ \E r \in ReminderIds : AddGeofence(r, TRUE, "ok")
  \/ \E r \in ReminderIds : AddGeofenceSuspends(r)
  \/ StartMonitoringResume
  \/ \E r \in ReminderIds : RemoveGeofence(r, TRUE)
  \/ StopMonitoringResume("ok")

SpecInterleaved == Init /\ [][NextInterleaved]_vars
\* ================================================================ claims
Registered(r) == Has(activeGeofences, r)
Geo(r) == activeGeofences[IndexOf(activeGeofences, r)]
Trail(r) == hist[r].trail
Last(t) == t[Len(t)]

\* A reading was evaluated against the record of r in this step.
Evaluated(r) ==
  /\ Registered(r)
  /\ Len(Trail(r)') = Len(Trail(r)) + 1
  /\ Len(Trail(r)) >= 1

FiredNow(r) == Len(Trail(r)') = Len(Trail(r)) + 1 /\ Last(Trail(r)').event # "none"

\* C1: within one process lifetime and one registration, a reading inside the
\* region that follows a reading outside it is handled as exactly one ENTER
\* (triggeredCount + 1), a reading inside that follows a reading inside is
\* handled as none, and every handled transition becomes exactly one
\* notification request, first suspended and then made.
C1_OneEnterPerCrossing ==
  [][\A r \in ReminderIds :
       /\ (Evaluated(r) /\ ~Last(Trail(r)).inside /\ Last(Trail(r)').inside)
            => /\ Last(Trail(r)').event = "ENTER"
               /\ Geo(r)'.triggeredCount = Geo(r).triggeredCount + 1
       /\ (Evaluated(r) /\ Last(Trail(r)).inside /\ Last(Trail(r)').inside)
            => /\ Last(Trail(r)').event = "none"
               /\ Geo(r)'.triggeredCount = Geo(r).triggeredCount
       /\ RequestsFor(r)' = RequestsFor(r) + (IF FiredNow(r) THEN 1 ELSE 0)
       /\ Len(notifLog[r]') >= Len(notifLog[r])]_vars

C1_Witness ==
  \E r \in ReminderIds :
    /\ Registered(r)
    /\ Len(Trail(r)) = 3
    /\ ~Trail(r)[1].inside /\ Trail(r)[2].inside /\ Trail(r)[3].inside
    /\ Geo(r).triggeredCount = 1
    /\ Len(notifLog[r]) = 1 /\ notifLog[r][1].type = "ENTER" /\ PendingFor(r) = 0

\* C2: a geofence added while the device is inside its region fires nothing on
\* its first reading; after the readings inside, inside, outside it has fired
\* one event, an EXIT, and its wasInside is false.
C2_NoEnterOnCreation ==
  \A r \in ReminderIds :
    (Registered(r) /\ hist[r].origin = "added" /\ Len(Trail(r)) >= 1 /\ Trail(r)[1].inside)
      => /\ Trail(r)[1].event = "none"
         /\ (Len(Trail(r)) = 3 /\ Trail(r)[2].inside /\ ~Trail(r)[3].inside)
              => /\ Trail(r)[3].event = "EXIT"
                 /\ Geo(r).triggeredCount = 1
                 /\ Geo(r).wasInside = "false"

\* C3: a reading whose containment equals that of the reading evaluated before
\* it fires no event and leaves triggeredCount, lastTriggered and
\* lastTransitionType of the record as they were.
C3_SameContainmentNoEvent ==
  [][\A r \in ReminderIds :
       (Evaluated(r) /\ Last(Trail(r)').inside = Last(Trail(r)).inside)
         => /\ Last(Trail(r)').event = "none"
            /\ Geo(r)'.triggeredCount = Geo(r).triggeredCount
            /\ Geo(r)'.lastTriggered = Geo(r).lastTriggered
            /\ Geo(r)'.lastTransitionType = Geo(r).lastTransitionType
            /\ RequestsFor(r)' = RequestsFor(r)]_vars

C3_Witness ==
  \E r \in ReminderIds :
    /\ Registered(r)
    /\ Len(Trail(r)) = 3
    /\ Trail(r)[2].event = "EXIT"
    /\ ~Trail(r)[3].inside /\ Trail(r)[3].event = "none"
    /\ Geo(r).triggeredCount = 2 /\ Geo(r).lastTriggered = clock - 2

\* C4: after every reading the wasInside of each registered record is the
\* containment of that reading, also when the write or the dispatch of its
\* event was rejected, and a crossing is not fired again by the next reading
\* on the same side.
C4_WasInsideAlwaysUpdated ==
  \A r \in ReminderIds :
    (Registered(r) /\ Len(Trail(r)) >= 1)
      => /\ Geo(r).wasInside = BoolStr(Last(Trail(r)).inside)
         /\ \A i \in 2..Len(Trail(r)) :
              (Trail(r)[i - 1].event # "none" /\ Trail(r)[i].inside = Trail(r)[i - 1].inside)
                => Trail(r)[i].event = "none"

C4_Witness ==
  \E r \in ReminderIds :
    /\ Registered(r)
    /\ Len(Trail(r)) = 2
    /\ Trail(r)[1].event = "ENTER" /\ Trail(r)[2].inside /\ Trail(r)[2].event = "none"
    /\ Len(notifLog[r]) = 1 /\ ~notifLog[r][1].delivered
    /\ Geo(r).wasInside = "true" /\ Geo(r).triggeredCount = 1
Stored(r) == storage.items[IndexOf(storage.items, r)]

\* C5: when the write caused by the latest transition of g succeeded, the
\* storage item holds g with the wasInside that caused the transition, next to
\* the incremented triggeredCount, lastTriggered and lastTransitionType.
C5_SnapshotHasNewWasInside ==
  \A r \in ReminderIds :
    (/\ Registered(r)
     /\ Len(Trail(r)) >= 1
     /\ Last(Trail(r)).event # "none" /\ Last(Trail(r)).saved
     /\ storage.present /\ Has(storage.items, r)
     /\ Stored(r).triggeredCount = Geo(r).triggeredCount)
      => /\ Stored(r).hasWasInside
         /\ Stored(r).wasInside = BoolStr(Last(Trail(r)).inside)
         /\ Stored(r).lastTriggered = Geo(r).lastTriggered
         /\ Stored(r).lastTransitionType = Last(Trail(r)).event

\* C6: a geofence whose ENTER was handled and written before the process died,
\* the device staying inside, fires no ENTER on the first reading inside it
\* after the restart has loaded it.
C6_NoSecondEnterAfterRestart ==
  \A r \in ReminderIds :
    (/\ Registered(r)
     /\ hist[r].origin = "loaded" /\ hist[r].carry
     /\ Len(Trail(r)) >= 1 /\ Trail(r)[1].inside)
      => Trail(r)[1].event = "none"

\* C7: after a restart has loaded the registry, the first foreground reading
\* inside a geofence fires nothing if it was persisted with wasInside true and
\* fires ENTER, counted once, if it was persisted with wasInside false.
C7_LoadedStateDecidesFirstSample ==
  \A r \in ReminderIds :
    (/\ Registered(r)
     /\ hist[r].origin = "loaded"
     /\ Len(Trail(r)) >= 1 /\ Trail(r)[1].inside)
      => /\ hist[r].seed = "true" => Trail(r)[1].event = "none"
         /\ hist[r].seed = "false" => Trail(r)[1].event = "ENTER"
         /\ (hist[r].seed = "false" /\ Len(Trail(r)) = 1 /\ Has(storage.items, r))
              => Geo(r).triggeredCount = Stored(r).triggeredCount

C7_Witness ==
  \E r, q \in ReminderIds :
    /\ Registered(r) /\ Registered(q)
    /\ hist[r].origin = "loaded" /\ hist[r].seed = "true"
    /\ hist[q].origin = "loaded" /\ hist[q].seed = "false"
    /\ Len(Trail(r)) = 1 /\ Trail(r)[1].inside /\ Trail(r)[1].event = "none"
    /\ Len(Trail(q)) = 1 /\ Trail(q)[1].inside /\ Trail(q)[1].event = "ENTER"

\* A reading at pos is inside the persisted geofence j, whose stored wasInside is not true.
EntersStored(pos, j) ==
  /\ DeviceInside(pos, j)
  /\ ~(j.hasWasInside /\ j.wasInside = "true")

\* C8: a run of either background task with a reading inside a persisted
\* geofence whose stored wasInside is false handles its ENTER: a notification
\* request is on its way and the stored record has wasInside true and one more
\* triggeredCount.
C8_BackgroundTaskFiresEnter ==
  [][\A pos \in Positions :
       (PerformBackgroundGeofenceCheck(TRUE, pos) \/ HandleBackgroundLocationUpdate(pos))
         => \A r \in ReminderIds :
              (storage.present /\ Has(storage.items, r) /\ EntersStored(pos, Stored(r)))
                => /\ RequestsFor(r)' = RequestsFor(r) + 1
                   /\ Stored(r)'.wasInside = "true" /\ Stored(r)'.hasWasInside
                   /\ Stored(r)'.triggeredCount = Stored(r).triggeredCount + 1]_vars

C10_StopUnregistersFetchTask ==
  [][(StopMonitoringResume("ok") /\ Len(activeGeofences) = 0 /\ ~isMonitoring')
       => ~fetchTaskRegistered']_vars

\* C11: a run of the periodic task that finds the storage item absent (never
\* written, or removed by cleanup) or holding no geofence (all removed) calls
\* no transition handler, requests no notification and leaves the storage
\* item and the in-memory registry as they are.
C11_StaleTaskDoesNothing ==
  [][\A readingOk \in BOOLEAN, pos \in Positions :
       (PerformBackgroundGeofenceCheck(readingOk, pos)
          /\ (~storage.present \/ Len(storage.items) = 0))
         => /\ UNCHANGED <<storage, activeGeofences, pendingTransitions, notifLog>>
            /\ taskRun'.fired = taskRun.fired]_vars

C11_Witness ==
  /\ taskRun.task = "fetch" /\ taskRun.outcome = "empty"
  /\ storage.present /\ Len(storage.items) = 0
  /\ Len(activeGeofences) = 0 /\ ~isMonitoring /\ stopsPending = 0
  /\ Len(pendingTransitions) = 0
  /\ \A r \in ReminderIds : Len(notifLog[r]) = 0

\* C17: a run of the periodic task whose getCurrentPositionAsync is rejected
\* ends in the catch of performBackgroundGeofenceCheck before the item is
\* read: nothing is evaluated, no record in memory or in storage changes and
\* nothing is requested.
C17_NoReadingNoEvaluation ==
  [][\A pos \in Positions :
       PerformBackgroundGeofenceCheck(FALSE, pos)
         => /\ UNCHANGED <<storage, activeGeofences, pendingTransitions, notifLog>>
            /\ taskRun'.outcome = "noReading"
            /\ taskRun'.fired = taskRun.fired]_vars

C17_Witness ==
  /\ taskRun.task = "fetch" /\ taskRun.outcome = "noReading"
  /\ storage.present /\ Len(storage.items) > 0
  /\ Len(activeGeofences) > 0
  /\ Len(pendingTransitions) = 0

\* C12: addGeofence and removeGeofence whose setItem is rejected keep the
\* change in the in-memory registry and report the failure: addGeofence
\* rejects, removeGeofence returns false.
C12_WriteFailureIsReported ==
  [][\A r \in ReminderIds :
       /\ (\A provider \in ProviderOutcomes :
             AddGeofence(r, FALSE, provider)
               => /\ Has(activeGeofences', r)
                  /\ addGeofenceReports(FALSE, provider) = "rejected")
       /\ (RemoveGeofence(r, FALSE)
             => /\ ~Has(activeGeofences', r)
                /\ removeGeofenceReturns(Has(activeGeofences, r), FALSE) = FALSE)]_vars

\* C13: addGeofence never reports success while leaving isMonitoring false.
C13_NoSuccessWithoutMonitoring ==
  [][\A r \in ReminderIds, saveOk \in BOOLEAN, provider \in ProviderOutcomes :
       (AddGeofence(r, saveOk, provider) /\ addGeofenceReports(saveOk, provider) = "resolved")
         => isMonitoring']_vars
\* C14: with every I/O call succeeding, an addGeofence or removeGeofence of one
\* reminder never drops the persisted geofence of another reminder from the
\* storage item, also after a restart whose initialize stopped at the
\* permission check.
C14_PersistedGeofencesSurvive ==
  [][\A r \in ReminderIds :
       (AddGeofence(r, TRUE, "ok") \/ RemoveGeofence(r, TRUE))
         => \A q \in ReminderIds \ {r} :
              (storage.present /\ Has(storage.items, q)) => Has(storage'.items, q)]_vars
\* C15: when the watch callback starts on a reading, no handleGeofenceTransition
\* call of an earlier reading is still suspended before its dispatch.
C15_SamplesDoNotInterleave ==
  [][(\E pos \in Positions, saveOk \in [ReminderIds -> BOOLEAN] :
        HandleLocationUpdate(pos, saveOk))
       => Len(pendingTransitions) = 0]_vars
\* C16: with the foreground watch and the background location task both
\* delivering readings, a crossing is requested at most once: a background
\* reading on the side of the region where the latest foreground reading was
\* requests nothing, and a foreground reading requests no transition that
\* background readings since the previous foreground reading have requested.
C16_OneRequestPerCrossing ==
  [][\A r \in ReminderIds, pos \in Positions :
       /\ (HandleBackgroundLocationUpdate(pos) /\ Registered(r) /\ Len(Trail(r)) >= 1
              /\ DeviceInside(pos, Geo(r)) = Last(Trail(r)).inside)
            => RequestsFor(r)' = RequestsFor(r)
       /\ HandleBackgroundLocationUpdate(pos) => RequestsFor(r)' <= RequestsFor(r) + 1
       /\ (HandleLocationUpdate(pos, [q \in ReminderIds |-> TRUE]) /\ FiredNow(r))
            => [reminderId |-> r, type |-> Last(Trail(r)').event] \notin taskRun.fired]_vars

C16_Witness ==
  \E r \in ReminderIds :
    /\ Registered(r) /\ locationSubscription /\ bgLocationUpdates
    /\ Len(Trail(r)) = 2 /\ ~Trail(r)[1].inside /\ Trail(r)[2].inside
    /\ Trail(r)[2].event = "ENTER" /\ Geo(r).lastTriggered = 2
    /\ clock = 4 /\ taskRun.task = "location" /\ r \in taskRun.inside
    /\ Len(notifLog[r]) = 1 /\ PendingFor(r) = 0
\* C18: the triggeredCount of the record of a registered reminder never
\* decreases, whatever operation or reading comes, and a reading that fires a
\* transition for it raises it by exactly 1.
C18_TriggeredCountMonotonic ==
  [][\A r \in ReminderIds :
       (Registered(r) /\ Registered(r)')
         => /\ Geo(r)'.triggeredCount >= Geo(r).triggeredCount
            /\ FiredNow(r) => Geo(r)'.triggeredCount = Geo(r).triggeredCount + 1]_vars
\* C19: after every operation of AppContext, a reminder has a geofence record
\* in the registry exactly when it is stored and active.
C19_OneRecordPerActiveReminder ==
  \A r \in ReminderIds : Registered(r) <=> reminders[r].status = "active"

\* C20: every record in the registry has a radius within
\* [MinRadius, MaxRadius].
C20_RadiusWithinRange ==
  \A i \in 1..Len(activeGeofences) :
    /\ activeGeofences[i].radius >= MinRadius
    /\ activeGeofences[i].radius <= MaxRadius
\* C21: a foreground reading whose distance to the centre of a geofence equals
\* its radius counts as inside: after a reading outside it fires ENTER, after a
\* reading inside it fires nothing (no EXIT), and wasInside becomes true.
C21_BoundaryIsInside ==
  [][\A r \in ReminderIds, pos \in Positions :
       (/\ HandleLocationUpdate(pos, [q \in ReminderIds |-> TRUE])
        /\ Registered(r) /\ Len(Trail(r)) >= 1
        /\ calculateDistance(pos, Geo(r).center) = Geo(r).radius)
         => /\ Geo(r)'.wasInside = "true"
            /\ ~Last(Trail(r)).inside => Last(Trail(r)').event = "ENTER"
            /\ Last(Trail(r)).inside
                 => (Last(Trail(r)').event = "none" /\ RequestsFor(r)' = RequestsFor(r))]_vars

\* Two regions that touch in one point: a reading inside both lies on the
\* boundary of both.
C21_Witness ==
  \E r, q \in ReminderIds :
    /\ Registered(r) /\ Registered(q)
    /\ calculateDistance(Geo(r).center, Geo(q).center) = Geo(r).radius + Geo(q).radius
    /\ Len(Trail(r)) = 2 /\ Len(Trail(q)) = 2
    /\ ~Trail(r)[1].inside /\ Trail(r)[2].inside /\ Trail(r)[2].event = "ENTER"
    /\ Trail(q)[1].inside /\ Trail(q)[2].inside /\ Trail(q)[2].event = "none"
    /\ Geo(r).wasInside = "true" /\ Geo(q).wasInside = "true"
\* C26: whenever no stopMonitoring call is in progress, isMonitoring is true
\* exactly when a watch handle is held, also after a rejected
\* startLocationUpdatesAsync or stopLocationUpdatesAsync.
C26_FlagMatchesSubscription ==
  stopsPending = 0 => (isMonitoring <=> locationSubscription)

\* C28: a handleGeofenceTransition call that gets past its awaits after its
\* reminder's geofence was removed requests no notification for it.
C28_NoRequestAfterRemoval ==
  [][\A r \in ReminderIds :
       (/\ Len(pendingTransitions) > 0
        /\ pendingTransitions' = Tail(pendingTransitions)
        /\ Head(pendingTransitions).reminderId = r
        /\ ~Registered(r))
         => notifLog'[r] = notifLog[r]]_vars
EventsOf(trail) == SelectSeq([i \in 1..Len(trail) |-> trail[i].event], LAMBDA e : e # "none")

Alternates(events) ==
  /\ Len(events) > 0 => events[1] = "ENTER"
  /\ \A i \in 1..Len(events) - 1 : events[i + 1] # events[i]

C24_InactiveKeepsRecord ==
  [][\A r \in ReminderIds :
       (/\ Registered(r)
        /\ reminders[r].status = "active"
        /\ reminders' = [reminders EXCEPT ![r].status = "inactive"])
         => (Registered(r)' /\ Geo(r)' = Geo(r))]_vars
C22_NativeRequestsOnlyOnEnter ==
  [][/\ \A i \in 1..Len(native.requests') :
          native.requests'[i].action = "ENTER" /\ native.requests'[i].reminderId \in ReminderIds
     /\ ~native.propagated'
     /\ \A event \in NativeEvents, parseOk, hapticsOk, scheduleOk \in BOOLEAN :
          (/\ NativeGeofenceEvent(event, parseOk, hapticsOk, scheduleOk)
           /\ (event.action # "ENTER" \/ ~event.extras \/ event.reminderId = 0))
            => native.requests' = native.requests]_vars

C22_Witness ==
  /\ native.handlers = 1
  /\ native.events = 2
  /\ Len(native.requests) = 1
  /\ native.requests[1].action = "ENTER"
  /\ ~native.requests[1].delivered

\* C30: however the initialize calls overlap, handleGeofenceEvent is registered
\* with onGeofence at most once, so a native event is handled once.
C30_HandlerRegisteredOnce ==
  native.handlers <= 1
\* C25: the records in the array getActiveGeofences returned stay as they were
\* when the call returned, whatever readings are processed afterwards.
C25_ReturnedListIsSnapshot ==
  returned.taken => returned.now = returned.atCall
\* C27: however addGeofence and removeGeofence calls interleave, at most one
\* foreground watch is live, and when no startMonitoring or stopMonitoring
\* call is in progress and the registry is empty, none is.
C27_AtMostOneSubscription ==
  /\ LiveSubscriptions <= 1
  /\ (starts.pending = 0 /\ stopsPending = 0 /\ Len(activeGeofences) = 0)
       => LiveSubscriptions = 0
====
